---- MODULE Spec2Model ----
(***************************************************************************)
(* Room, turn and card handlers of the Briscola server                     *)
(* (Server/src/controllers/roomController.ts) as a state machine over the  *)
(* five tables they read and write: rooms, players, deck, hand_cards and   *)
(* table_cards.  One action is one request handled to completion.          *)
(***************************************************************************)
EXTENDS Integers, Sequences, FiniteSets, TLC

\* ------------------------------------------------------------- bounds
MaxUsers == 3       \* registered users (user ids 1..MaxUsers)
MaxPlayers == 3     \* player rows of one room
MaxNumber == 2      \* ranks of the deck (10 in the game)
MaxSeed == 2        \* suits of the deck (4 in the game)
MaxCopies == 2      \* deck rows of one (number, seed) of one room
MaxTable == 1       \* table rows of one room
CardUsers == 2      \* users who draw and play in SpecCards
MaxHand == 2        \* cards drawn from one deck in SpecGame
MaxRows == 5        \* player rows of the room in SpecFill
MaxNames == 2       \* player names that travel as an event's payload
PageUsers == 2      \* users with a Room page in SpecPage

Users == 1..MaxUsers
Numbers == 1..MaxNumber
Seeds == 1..MaxSeed
Names == 1..MaxNames

\* Room codes ("AB12" is the code of the spec's end-to-end scenario).  A
\* handler reads and writes the rows of the one code of its request.
Codes == {"AB12", "CD34"}
OneRoom == {"AB12"}
NoCode == ""

\* ------------------------------------------------- values of the code
NoToken == 0        \* authorization header absent: split(" ")[1] is undefined
BadToken == -1      \* a bearer token that does not verify
Tokens == Users \cup {NoToken, BadToken}
Null == 0           \* SQL NULL / JS null in a user id or team column

\* utils/getIdByToken: the user id a valid token carries, null otherwise.
getUserIdFromToken(token) == IF token \in Users THEN token ELSE Null

\* utils/generateDeck: the cross product of ranks and suits.
generateDeck == Numbers \X Seeds
DeckSize == Cardinality(generateDeck)

\* A table of rows that may repeat, as the number of rows of each value.
EmptyBag(S) == [x \in S |-> 0]
BagSize(b) == LET RECURSIVE Sum(_)
                  Sum(S) == IF S = {} THEN 0
                            ELSE LET x == CHOOSE y \in S : TRUE
                                 IN b[x] + Sum(S \ {x})
              IN Sum(DOMAIN b)

\* rooms row: the schema's default status is "waiting".
NoRoom == [status |-> "absent", turn_player_id |-> Null]
NewRoom(user_id) == [status |-> "waiting", turn_player_id |-> user_id]

\* players row (columns of the INSERTs; in_game defaults to 0).
Player(user_id, team, host) ==
    [user_id |-> user_id, team |-> team, host |-> host, in_game |-> FALSE]

VARIABLES
    rooms,        \* [Codes -> rooms row or NoRoom]
    players,      \* [Codes -> sequence of players rows, in storage order]
    deck,         \* [Codes -> rows of (number, seed)]
    hand_cards,   \* [Codes -> [Users -> rows of (number, seed)]]
    table_cards,  \* [Codes -> [Users -> rows of (number, seed)]]
    res,          \* the response to the last request
    calls,        \* [Users -> the request in flight of that user]
    page,         \* [Users -> the Room page of that user's browser]
    subscribed,   \* [Users -> the relay rooms the socket of that user is in]
    relayed       \* the relay's last broadcast and who has yet to handle it

vars == <<rooms, players, deck, hand_cards, table_cards, res,
          calls, page, subscribed, relayed>>
cards == <<deck, hand_cards, table_cards>>
storage == <<rooms, players, deck, hand_cards, table_cards>>
browser == <<page, subscribed, relayed>>

NoCard == <<0, 0>>

\* A request between its statements: pc names the statement to run next,
\* code the room asked for; card is the deck row drawCard selected, rows and
\* turn what passTurn read.  pc is "answered" once drawCard or passTurn has
\* sent its response, whose HTTP status is kept.
NoCall == [pc |-> "idle", code |-> NoCode, card |-> <<0, 0>>, rows |-> <<>>,
           turn |-> 0, status |-> 0]

\* Room.vue's refs: code (the route's parameter), players (the list the page
\* last fetched, as user ids; it starts as [{ name: "null", host: 0 }]),
\* isGameStarted, isHost, canStart, and countdown (here: it is running).
\* pc: "none" with no component, "mounted", "left" when onUnmounted is past
\* its leaveRoom; listening: the socket's handlers are registered.
NoPage == [pc |-> "none", code |-> NoCode, players |-> <<Null>>,
           isGameStarted |-> FALSE, isHost |-> FALSE, canStart |-> TRUE,
           countdown |-> FALSE, listening |-> FALSE]

\* A broadcast of the relay: the outgoing event, its room, the socket that
\* emitted, the payload, and the sockets it goes to.
Relay(event, room, from, payload, to) ==
    [event |-> event, room |-> room, from |-> from, payload |-> payload,
     to |-> to]
NoRelay == Relay("none", NoCode, Null, Null, {})
\* op, status: the handler and the HTTP status of its answer; user: the
\* caller's id; card: the card drawn or played; detail: what the handler logs
\* or counts (passTurn: the holder it passed from; playCard: the hand rows
\* its DELETE matched; deleteRoom: the rows that went, the room's and its
\* players').
Reply(op, status, code, user, card, detail) ==
    [op |-> op, status |-> status, code |-> code, user |-> user,
     card |-> card, detail |-> detail]

Init ==
    /\ rooms = [c \in Codes |-> NoRoom]
    /\ players = [c \in Codes |-> <<>>]
    /\ deck = [c \in Codes |-> EmptyBag(generateDeck)]
    /\ hand_cards = [c \in Codes |-> [u \in Users |-> EmptyBag(generateDeck)]]
    /\ table_cards = [c \in Codes |-> [u \in Users |-> EmptyBag(generateDeck)]]
    /\ res = Reply("none", 0, NoCode, Null, NoCard, 0)
    /\ calls = [u \in Users |-> NoCall]
    /\ page = [u \in Users |-> NoPage]
    /\ subscribed = [u \in Users |-> {}]
    /\ relayed = NoRelay

\* A request handled in one step leaves the requests in flight, the pages
\* and the relay as they are.
Http(handled) == handled /\ UNCHANGED <<calls, page, subscribed, relayed>>

\* The two checks every authenticated handler starts with.
Unauthorized(token) == token = NoToken \/ getUserIdFromToken(token) = Null
Reject(op, code) ==
    /\ res' = Reply(op, 401, code, Null, NoCard, 0)
    /\ UNCHANGED <<rooms, players, deck, hand_cards, table_cards>>

\* ------------------------------------------------------------ storage
\* utils/codeRoom: no rooms row has this code.
isCodeUnique(code) == rooms[code] = NoRoom

\* rooms.code is the primary key: an INSERT of a code that a row has fails.
PrimaryKeyFree(code) == rooms[code] = NoRoom

\* SELECT ... FROM rooms WHERE code = ? returns a row.
RoomExists(code) == rooms[code] # NoRoom

\* players.room_code references rooms(code): a player row needs its room, and
\* the rows of a deleted room go with it.
ForeignKeyHolds(code) == RoomExists(code)

\* The reference without ON DELETE CASCADE and unchecked: the rows stay.
PlayersKept(rows) == rows

PlayersOfDeletedRoom(rows) == <<>>

\* rooms.id, which endGame's UPDATE matches, names the room its code names.
RoomById(id) == id

\* SELECT user_id FROM players WHERE room_code = code
MemberIds(code) == {players[code][i].user_id : i \in 1..Len(players[code])}

\* A plausible slip: AND user_id = ? lost from the DELETE, which then
\* removes every player row of the room.
DeleteAllPlayers(rows, user_id) == <<>>

\* DELETE FROM players WHERE room_code = ? AND user_id = ?
DeletePlayer(rows, user_id) ==
    LET Keep(row) == row.user_id # user_id IN SelectSeq(rows, Keep)

\* UPDATE players SET in_game = 1 WHERE room_code = ?
SetInGame(rows) == [i \in 1..Len(rows) |-> [rows[i] EXCEPT !.in_game = TRUE]]

\* UPDATE rooms SET status = ? WHERE code = ? (no row, no change)
SetStatus(room, status) ==
    IF room = NoRoom THEN room ELSE [room EXCEPT !.status = status]

\* A plausible slip: the two teams of the ternary swapped.
TeamForSwapped(playerCount) == IF playerCount % 2 = 0 THEN 2 ELSE 1

\* joinRoom's team: 1 on an even count of player rows, 2 on an odd one.
TeamFor(playerCount) == IF playerCount % 2 = 0 THEN 1 ELSE 2

\* A plausible slip: the guard compares the field of the first row, as it
\* was meant to, so that it can hold.
FieldEquals(a, b) == a.val[1].turn_player_id = b.val

\* JS ===: operands of different types are never equal.
StrictEquals(a, b) == a.type = b.type /\ a.val = b.val

\* ----------------------------------------------------------- handlers
\* code: the code the generateCode / isCodeUnique loop ends with.
createRoom(token, code) ==
    IF Unauthorized(token) THEN Reject("createRoom", NoCode)
    ELSE LET user_id == getUserIdFromToken(token) IN
         /\ isCodeUnique(code)
         /\ rooms' = [rooms EXCEPT ![code] = NewRoom(user_id)]
         /\ players' = [players EXCEPT
                          ![code] = Append(@, Player(user_id, Null, TRUE))]
         /\ res' = Reply("createRoom", 200, code, user_id, NoCard, 0)
         /\ UNCHANGED cards

\* createRoom statement by statement, each await a point where another
\* request may run.  First the generateCode / isCodeUnique loop, which ends
\* with a code no room has at that moment.
createRoomCheck(token, code) ==
    /\ calls[token].pc = "idle"
    /\ IF Unauthorized(token)
       THEN Reject("createRoom", NoCode) /\ UNCHANGED calls
       ELSE /\ isCodeUnique(code)
            /\ calls' = [calls EXCEPT ![token] =
                            [NoCall EXCEPT !.pc = "insertRoom", !.code = code]]
            /\ UNCHANGED <<storage, res>>
    /\ UNCHANGED browser

\* INSERT INTO rooms (code, turn_player_id): a code that a room took in the
\* meantime is a duplicate key, the catch answers 500.
createRoomInsertRoom(token) ==
    LET user_id == getUserIdFromToken(token)
        code == calls[token].code
    IN /\ calls[token].pc = "insertRoom"
       /\ IF PrimaryKeyFree(code)
          THEN /\ rooms' = [rooms EXCEPT ![code] = NewRoom(user_id)]
               /\ calls' = [calls EXCEPT ![token].pc = "insertPlayer"]
               /\ UNCHANGED <<players, cards, res>>
          ELSE /\ res' = Reply("createRoom", 500, NoCode, user_id, NoCard, 0)
               /\ calls' = [calls EXCEPT ![token] = NoCall]
               /\ UNCHANGED storage
       /\ UNCHANGED browser

\* INSERT INTO players (room_code, user_id, host), then res.json(code).
createRoomInsertPlayer(token) ==
    LET user_id == getUserIdFromToken(token)
        code == calls[token].code
    IN /\ calls[token].pc = "insertPlayer"
       /\ calls' = [calls EXCEPT ![token] = NoCall]
       /\ IF ForeignKeyHolds(code)
          THEN /\ players' = [players EXCEPT
                                ![code] = Append(@, Player(user_id, Null, TRUE))]
               /\ res' = Reply("createRoom", 200, code, user_id, NoCard, 0)
               /\ UNCHANGED <<rooms, cards>>
          ELSE /\ res' = Reply("createRoom", 500, NoCode, user_id, NoCard, 0)
               /\ UNCHANGED storage
       /\ UNCHANGED browser

\* A plausible slip: the WHERE clause lost and LIMIT 1 in its place, so that
\* each call deletes one room, the first by code, whatever the code asked.
deleteRoomAny(token, code) ==
    IF token = NoToken THEN Reject("deleteRoom", code)
    ELSE LET existing == {c \in Codes : RoomExists(c)}
             Before(a, b) == a = "AB12" \/ b = "CD34"
             first == CHOOSE c \in existing : \A d \in existing : Before(c, d)
         IN IF existing = {}
            THEN /\ res' = Reply("deleteRoom", 200, code, Null, NoCard, 0)
                 /\ UNCHANGED storage
            ELSE /\ rooms' = [rooms EXCEPT ![first] = NoRoom]
                 /\ players' = [players EXCEPT
                                  ![first] = PlayersOfDeletedRoom(@)]
                 /\ res' = Reply("deleteRoom", 200, code, Null, NoCard,
                                 1 + Len(players[first]))
                 /\ UNCHANGED cards

deleteRoom(token, code) ==
    IF token = NoToken THEN Reject("deleteRoom", code)
    ELSE /\ rooms' = [rooms EXCEPT ![code] = NoRoom]
         /\ players' = [players EXCEPT ![code] =
                          IF RoomExists(code) THEN PlayersOfDeletedRoom(@) ELSE @]
         /\ res' = Reply("deleteRoom", 200, code, Null, NoCard,
                         IF RoomExists(code) THEN 1 + Len(players[code]) ELSE 0)
         /\ UNCHANGED cards

\* A plausible slip the other way: the count that picks the team also closes
\* a room of four, and a room that is not waiting takes nobody.
joinRoomLimited(token, code) ==
    IF Unauthorized(token) THEN Reject("joinRoom", code)
    ELSE LET user_id == getUserIdFromToken(token)
             playerCount == Len(players[code])
             team == TeamFor(playerCount)
         IN IF playerCount >= 4 \/ rooms[code].status # "waiting"
            THEN /\ res' = Reply("joinRoom", 403, code, user_id, NoCard, 0)
                 /\ UNCHANGED <<rooms, players, cards>>
            ELSE /\ players' = [players EXCEPT
                                  ![code] = Append(@, Player(user_id, team, FALSE))]
                 /\ res' = Reply("joinRoom", 200, code, user_id, NoCard, 0)
                 /\ UNCHANGED <<rooms, cards>>

joinRoom(token, code) ==
    IF Unauthorized(token) THEN Reject("joinRoom", code)
    ELSE LET user_id == getUserIdFromToken(token)
             playerCount == Len(players[code])
             team == TeamFor(playerCount)
         IN IF ForeignKeyHolds(code)
            THEN /\ players' = [players EXCEPT
                                  ![code] = Append(@, Player(user_id, team, FALSE))]
                 /\ res' = Reply("joinRoom", 200, code, user_id, NoCard, 0)
                 /\ UNCHANGED <<rooms, cards>>
            ELSE /\ res' = Reply("joinRoom", 500, code, user_id, NoCard, 0)
                 /\ UNCHANGED <<rooms, players, cards>>

leaveRoom(token, code) ==
    IF Unauthorized(token) THEN Reject("leaveRoom", code)
    ELSE LET user_id == getUserIdFromToken(token) IN
         /\ players' = [players EXCEPT ![code] = DeletePlayer(@, user_id)]
         /\ res' = Reply("leaveRoom", 200, code, user_id, NoCard, 0)
         /\ UNCHANGED <<rooms, cards>>

startGame(token, code) ==
    IF Unauthorized(token) THEN Reject("startGame", code)
    ELSE LET user_id == getUserIdFromToken(token) IN
         /\ players' = [players EXCEPT ![code] = SetInGame(@)]
         /\ rooms' = [rooms EXCEPT ![code] = SetStatus(@, "in_progress")]
         /\ deck' = [deck EXCEPT ![code] =
                       [card \in generateDeck |-> @[card] + 1]]
         /\ res' = Reply("startGame", 200, code, user_id, NoCard, 0)
         /\ UNCHANGED <<hand_cards, table_cards>>

\* A plausible slip: the DELETE of the hand rows left out.
endGameKeepsHands(id) ==
    /\ rooms' = [rooms EXCEPT ![RoomById(id)] = SetStatus(@, "ended")]
    /\ res' = Reply("endGame", 200, id, Null, NoCard, 0)
    /\ UNCHANGED <<players, deck, hand_cards, table_cards>>

\* A plausible slip: the end of the game clears the room's table as well.
endGameClearsTable(id) ==
    /\ hand_cards' = [c \in Codes |-> [u \in Users |->
                        IF u \in MemberIds(id) THEN EmptyBag(generateDeck)
                        ELSE hand_cards[c][u]]]
    /\ table_cards' = [table_cards EXCEPT
                         ![id] = [u \in Users |-> EmptyBag(generateDeck)]]
    /\ rooms' = [rooms EXCEPT ![RoomById(id)] = SetStatus(@, "ended")]
    /\ res' = Reply("endGame", 200, id, Null, NoCard, 0)
    /\ UNCHANGED <<players, deck>>

endGame(id) ==
    /\ hand_cards' = [c \in Codes |-> [u \in Users |->
                        IF u \in MemberIds(id) THEN EmptyBag(generateDeck)
                        ELSE hand_cards[c][u]]]
    /\ rooms' = [rooms EXCEPT ![RoomById(id)] = SetStatus(@, "ended")]
    /\ res' = Reply("endGame", 200, id, Null, NoCard, 0)
    /\ UNCHANGED <<players, deck, table_cards>>

giveUp(token, code) ==
    IF Unauthorized(token) THEN Reject("giveUp", code)
    ELSE LET player_id == getUserIdFromToken(token) IN
         /\ players' = [players EXCEPT ![code] = DeletePlayer(@, player_id)]
         /\ res' = Reply("giveUp", 200, code, player_id, NoCard, 0)
         /\ UNCHANGED <<rooms, cards>>

\* A plausible slip in the scan: the index after the holder's without the
\* modulo, so that the last member passes to nobody new.
NextPlayerNoWrap(rows, turn_player_id) ==
    LET Holder == {i \in 1..Len(rows) : rows[i].user_id = turn_player_id}
        i == IF Holder = {} THEN 0
             ELSE CHOOSE k \in Holder : \A j \in Holder : k <= j
    IN IF i = 0 THEN rows[1].user_id
       ELSE IF i = Len(rows) THEN rows[i].user_id ELSE rows[i + 1].user_id

\* The index of the first row of the turn holder, 0 when no row is theirs.
HolderIndex(rows, turn_player_id) ==
    IF \E i \in 1..Len(rows) : rows[i].user_id = turn_player_id
    THEN CHOOSE i \in 1..Len(rows) :
            /\ rows[i].user_id = turn_player_id
            /\ \A j \in 1..(i - 1) : rows[j].user_id # turn_player_id
    ELSE 0

\* A plausible slip: no fallback after the scan, the holder stays when no
\* row is theirs.
NextPlayerNoFallback(rows, turn_player_id) ==
    LET i == HolderIndex(rows, turn_player_id)
    IN IF i = 0 THEN turn_player_id ELSE rows[(i % Len(rows)) + 1].user_id

\* passTurn's scan: the row after the holder's, cyclically; the first row
\* when the holder has none.
NextPlayer(rows, turn_player_id) ==
    LET i == HolderIndex(rows, turn_player_id)
    IN IF i = 0 THEN rows[1].user_id ELSE rows[(i % Len(rows)) + 1].user_id

\* A plausible slip: no rows.length test, so that rows[0] of an empty result
\* is undefined, reading its user_id throws and the catch answers 500.
passTurnUnchecked(token, code) ==
    IF Unauthorized(token) THEN Reject("passTurn", code)
    ELSE LET player_id == getUserIdFromToken(token)
             rows == players[code]
         IN IF ~RoomExists(code)
            THEN /\ res' = Reply("passTurn", 404, code, player_id, NoCard, 0)
                 /\ UNCHANGED storage
            ELSE IF Len(rows) = 0
            THEN /\ res' = Reply("passTurn", 500, code, player_id, NoCard, 0)
                 /\ UNCHANGED storage
            ELSE LET turn_player_id == rooms[code].turn_player_id
                     nextPlayer == NextPlayer(rows, turn_player_id)
                 IN /\ rooms' = [rooms EXCEPT ![code].turn_player_id = nextPlayer]
                    /\ res' = Reply("passTurn", 200, code, player_id, NoCard,
                                    turn_player_id)
                    /\ UNCHANGED <<players, cards>>

passTurn(token, code) ==
    IF Unauthorized(token) THEN Reject("passTurn", code)
    ELSE LET player_id == getUserIdFromToken(token)
             rows == players[code]
             turnPlayerResult == IF RoomExists(code) THEN <<rooms[code]>> ELSE <<>>
         IN IF Len(rows) = 0 \/ Len(turnPlayerResult) = 0
            THEN /\ res' = Reply("passTurn", 404, code, player_id, NoCard, 0)
                 /\ UNCHANGED <<rooms, players, cards>>
            ELSE IF StrictEquals([type |-> "object", val |-> turnPlayerResult],
                                 [type |-> "number", val |-> player_id])
            THEN /\ res' = Reply("passTurn", 403, code, player_id, NoCard, 0)
                 /\ UNCHANGED <<rooms, players, cards>>
            ELSE LET turn_player_id == turnPlayerResult[1].turn_player_id
                     nextPlayer == NextPlayer(rows, turn_player_id)
                 IN /\ rooms' = [rooms EXCEPT ![code].turn_player_id = nextPlayer]
                    /\ res' = Reply("passTurn", 200, code, player_id, NoCard,
                                    turn_player_id)
                    /\ UNCHANGED <<players, cards>>

\* passTurn statement by statement, each await a point where another request
\* may run.  First SELECT user_id FROM players WHERE room_code = ?, and 404
\* when it has no row.
passTurnSelectPlayers(token, code) ==
    /\ calls[token].pc = "idle"
    /\ IF Unauthorized(token)
       THEN Reject("passTurn", code) /\ UNCHANGED calls
       ELSE LET player_id == getUserIdFromToken(token)
                rows == players[code]
            IN IF Len(rows) = 0
               THEN /\ res' = Reply("passTurn", 404, code, player_id, NoCard, 0)
                    /\ calls' = [calls EXCEPT ![token] =
                                    [NoCall EXCEPT !.pc = "answered",
                                                   !.code = code,
                                                   !.status = 404]]
                    /\ UNCHANGED storage
               ELSE /\ calls' = [calls EXCEPT ![token] =
                                    [NoCall EXCEPT !.pc = "selectTurn",
                                                   !.code = code,
                                                   !.rows = rows]]
                    /\ UNCHANGED <<storage, res>>
    /\ UNCHANGED browser

\* SELECT turn_player_id FROM rooms WHERE code = ?, 404 when no room has the
\* code, and the guard that compares the result with the caller's id.
passTurnSelectTurn(token) ==
    LET player_id == getUserIdFromToken(token)
        code == calls[token].code
        turnPlayerResult == IF RoomExists(code) THEN <<rooms[code]>> ELSE <<>>
    IN /\ calls[token].pc = "selectTurn"
       /\ IF Len(turnPlayerResult) = 0
          THEN /\ res' = Reply("passTurn", 404, code, player_id, NoCard, 0)
               /\ calls' = [calls EXCEPT ![token].pc = "answered",
                                         ![token].status = 404]
          ELSE IF StrictEquals([type |-> "object", val |-> turnPlayerResult],
                               [type |-> "number", val |-> player_id])
          THEN /\ res' = Reply("passTurn", 403, code, player_id, NoCard, 0)
               /\ calls' = [calls EXCEPT ![token].pc = "answered",
                                         ![token].status = 403]
          ELSE /\ calls' = [calls EXCEPT
                              ![token].pc = "update",
                              ![token].turn = turnPlayerResult[1].turn_player_id]
               /\ UNCHANGED res
       /\ UNCHANGED <<storage, browser>>

\* A plausible slip the other way: the UPDATE carries the holder that was
\* read, AND turn_player_id = ?, and a request that matched no row is
\* answered 409.
passTurnUpdateIfUnchanged(token) ==
    LET player_id == getUserIdFromToken(token)
        code == calls[token].code
        turn_player_id == calls[token].turn
        nextPlayer == NextPlayer(calls[token].rows, turn_player_id)
    IN /\ calls[token].pc = "update"
       /\ IF RoomExists(code) /\ rooms[code].turn_player_id = turn_player_id
          THEN /\ rooms' = [rooms EXCEPT ![code].turn_player_id = nextPlayer]
               /\ res' = Reply("passTurn", 200, code, player_id, NoCard,
                               turn_player_id)
               /\ calls' = [calls EXCEPT ![token].pc = "answered",
                                         ![token].status = 200]
          ELSE /\ res' = Reply("passTurn", 409, code, player_id, NoCard,
                               turn_player_id)
               /\ calls' = [calls EXCEPT ![token].pc = "answered",
                                         ![token].status = 409]
               /\ UNCHANGED rooms
       /\ UNCHANGED <<players, cards, browser>>

\* The scan over the rows read and UPDATE rooms SET turn_player_id = ? WHERE
\* code = ?, then res.send: the successor of the holder that was read,
\* whoever holds the turn by now.
passTurnUpdate(token) ==
    LET player_id == getUserIdFromToken(token)
        code == calls[token].code
        turn_player_id == calls[token].turn
        nextPlayer == NextPlayer(calls[token].rows, turn_player_id)
    IN /\ calls[token].pc = "update"
       /\ rooms' = IF RoomExists(code)
                   THEN [rooms EXCEPT ![code].turn_player_id = nextPlayer]
                   ELSE rooms
       /\ res' = Reply("passTurn", 200, code, player_id, NoCard, turn_player_id)
       /\ calls' = [calls EXCEPT ![token].pc = "answered",
                                 ![token].status = 200]
       /\ UNCHANGED <<players, cards, browser>>

\* A plausible slip: no rows.length test, so that rows[0] of an empty result
\* is undefined, reading its number throws and the catch answers 500.
drawCardUnchecked(token, code) ==
    IF Unauthorized(token) THEN Reject("drawCard", code)
    ELSE LET player_id == getUserIdFromToken(token) IN
         \/ \E drawnCard \in generateDeck :
               /\ deck[code][drawnCard] > 0
               /\ hand_cards' = [hand_cards EXCEPT
                                   ![code][player_id][drawnCard] = @ + 1]
               /\ deck' = [deck EXCEPT ![code][drawnCard] = @ - 1]
               /\ res' = Reply("drawCard", 200, code, player_id, drawnCard, 0)
               /\ UNCHANGED <<rooms, players, table_cards>>
         \/ /\ \A card \in generateDeck : deck[code][card] = 0
            /\ res' = Reply("drawCard", 500, code, player_id, NoCard, 0)
            /\ UNCHANGED <<rooms, players, cards>>

drawCard(token, code) ==
    IF Unauthorized(token) THEN Reject("drawCard", code)
    ELSE LET player_id == getUserIdFromToken(token) IN
         IF \E card \in generateDeck : deck[code][card] > 0
         THEN \E drawnCard \in generateDeck :
                /\ deck[code][drawnCard] > 0
                /\ hand_cards' = [hand_cards EXCEPT
                                    ![code][player_id][drawnCard] = @ + 1]
                /\ deck' = [deck EXCEPT ![code][drawnCard] = @ - 1]
                /\ res' = Reply("drawCard", 200, code, player_id, drawnCard, 0)
                /\ UNCHANGED <<rooms, players, table_cards>>
         ELSE /\ res' = Reply("drawCard", 404, code, player_id, NoCard, 0)
              /\ UNCHANGED <<rooms, players, cards>>

\* drawCard statement by statement, each await a point where another request
\* may run.  First SELECT * FROM deck WHERE room_code = ? ORDER BY RAND()
\* LIMIT 1: any row of the room's deck, or 404 when it has none.
drawCardSelect(token, code) ==
    /\ calls[token].pc = "idle"
    /\ IF Unauthorized(token)
       THEN Reject("drawCard", code) /\ UNCHANGED calls
       ELSE LET player_id == getUserIdFromToken(token) IN
            IF \E card \in generateDeck : deck[code][card] > 0
            THEN \E drawnCard \in generateDeck :
                   /\ deck[code][drawnCard] > 0
                   /\ calls' = [calls EXCEPT ![token] =
                                   [NoCall EXCEPT !.pc = "insertHand",
                                                  !.code = code,
                                                  !.card = drawnCard]]
                   /\ UNCHANGED <<storage, res>>
            ELSE /\ res' = Reply("drawCard", 404, code, player_id, NoCard, 0)
                 /\ calls' = [calls EXCEPT ![token] =
                                 [NoCall EXCEPT !.pc = "answered",
                                                !.code = code,
                                                !.status = 404]]
                 /\ UNCHANGED storage
    /\ UNCHANGED browser

\* A plausible slip the other way: the selected row is looked up again and
\* the hand row is inserted only while the deck still has it.
drawCardInsertIfInDeck(token) ==
    LET player_id == getUserIdFromToken(token)
        code == calls[token].code
        drawnCard == calls[token].card
    IN /\ calls[token].pc = "insertHand"
       /\ IF deck[code][drawnCard] > 0
          THEN /\ hand_cards' = [hand_cards EXCEPT
                                   ![code][player_id][drawnCard] = @ + 1]
               /\ calls' = [calls EXCEPT ![token].pc = "deleteDeck"]
               /\ UNCHANGED <<rooms, players, deck, table_cards, res>>
          ELSE /\ res' = Reply("drawCard", 404, code, player_id, NoCard, 0)
               /\ calls' = [calls EXCEPT ![token].pc = "answered",
                                         ![token].status = 404]
               /\ UNCHANGED storage
       /\ UNCHANGED browser

\* INSERT INTO hand_cards (room_code, number, seed, player_id) of the row
\* selected, which nothing reads again.
drawCardInsert(token) ==
    LET player_id == getUserIdFromToken(token)
        code == calls[token].code
        drawnCard == calls[token].card
    IN /\ calls[token].pc = "insertHand"
       /\ hand_cards' = [hand_cards EXCEPT
                           ![code][player_id][drawnCard] = @ + 1]
       /\ calls' = [calls EXCEPT ![token].pc = "deleteDeck"]
       /\ UNCHANGED <<rooms, players, deck, table_cards, res, browser>>

\* DELETE FROM deck WHERE id = ? of the row selected, then res.send: a row
\* that another request has deleted matches nothing, which is no error.  The
\* deck holds one row for a card while a request is in flight, so the card
\* stands for the row's id.
drawCardDelete(token) ==
    LET player_id == getUserIdFromToken(token)
        code == calls[token].code
        drawnCard == calls[token].card
    IN /\ calls[token].pc = "deleteDeck"
       /\ deck' = [deck EXCEPT ![code][drawnCard] =
                     IF @ > 0 THEN @ - 1 ELSE @]
       /\ res' = Reply("drawCard", 200, code, player_id, drawnCard, 0)
       /\ calls' = [calls EXCEPT ![token].pc = "answered",
                                 ![token].status = 200]
       /\ UNCHANGED <<rooms, players, hand_cards, table_cards, browser>>

\* A plausible slip: the DELETE left out, the card stays in the hand.
KeepHandCard(hand, card) == hand

\* DELETE FROM hand_cards WHERE room_code = ? AND player_id = ?
\*   AND number = ? AND seed = ?   (every matching row of that hand)
DeleteHandCard(hand, card) == [hand EXCEPT ![card] = 0]

\* A plausible slip the other way: the hand is looked up first and a card
\* it does not hold is refused.
playCardChecked(token, code, number, seed) ==
    IF Unauthorized(token) THEN Reject("playCard", code)
    ELSE LET player_id == getUserIdFromToken(token)
             card == <<number, seed>>
         IN IF hand_cards[code][player_id][card] = 0
            THEN /\ res' = Reply("playCard", 404, code, player_id, card, 0)
                 /\ UNCHANGED storage
            ELSE /\ table_cards' = [table_cards EXCEPT
                                      ![code][player_id][card] = @ + 1]
                 /\ hand_cards' = [hand_cards EXCEPT
                                     ![code][player_id] = DeleteHandCard(@, card)]
                 /\ res' = Reply("playCard", 200, code, player_id, card,
                                 hand_cards[code][player_id][card])
                 /\ UNCHANGED <<rooms, players, deck>>

playCard(token, code, number, seed) ==
    IF Unauthorized(token) THEN Reject("playCard", code)
    ELSE LET player_id == getUserIdFromToken(token)
             card == <<number, seed>>
         IN /\ table_cards' = [table_cards EXCEPT ![code][player_id][card] = @ + 1]
            /\ hand_cards' = [hand_cards EXCEPT
                                ![code][player_id] = DeleteHandCard(@, card)]
            /\ res' = Reply("playCard", 200, code, player_id, card,
                            hand_cards[code][player_id][card])
            /\ UNCHANGED <<rooms, players, deck>>

\* ---------------------------------------------------------------- relay
\* A plausible slip: io.to(room) for socket.to(room), which reaches the
\* emitting socket as well.
BroadcastToAll(socket, room, subs) == {t \in Users : room \in subs[t]}

\* webSocket.js, one socket for each user's browser.  socket.to(room): the
\* sockets in the room except the emitting one.
BroadcastTo(socket, room, subs) ==
    {t \in Users : room \in subs[t]} \ {socket}

\* What each handler does to the rooms of the sockets and to the broadcast.
onJoinRoom(socket, room, player) ==
    LET joined == [subscribed EXCEPT ![socket] = @ \cup {room}] IN
    /\ subscribed' = joined
    /\ relayed' = Relay("playerJoined", room, socket, player,
                        BroadcastTo(socket, room, joined))

onLeaveRoom(socket, room, player) ==
    /\ relayed' = Relay("playerLeft", room, socket, player,
                        BroadcastTo(socket, room, subscribed))
    /\ subscribed' = [subscribed EXCEPT ![socket] = @ \ {room}]

onStartGame(socket, room) ==
    /\ relayed' = Relay("gameStarted", room, socket, Null,
                        BroadcastTo(socket, room, subscribed))
    /\ UNCHANGED subscribed

\* An event the relay has no handler for is dropped.
onUnhandled(socket) == UNCHANGED <<subscribed, relayed>>

\* The handlers as steps of the relay on their own.
relayJoinRoom(socket, room, player) ==
    onJoinRoom(socket, room, player) /\ UNCHANGED <<storage, res, calls, page>>

relayLeaveRoom(socket, room, player) ==
    onLeaveRoom(socket, room, player) /\ UNCHANGED <<storage, res, calls, page>>

relayStartGame(socket, room) ==
    onStartGame(socket, room) /\ UNCHANGED <<storage, res, calls, page>>

relayJoinGame(socket, game, player) ==
    /\ subscribed' = [subscribed EXCEPT ![socket] = @ \cup {game}]
    /\ UNCHANGED <<storage, res, calls, page, relayed>>

relayPassTurn(socket, game, player) ==
    /\ relayed' = Relay("turnPassed", game, socket, player,
                        BroadcastTo(socket, game, subscribed))
    /\ UNCHANGED <<storage, res, calls, page, subscribed>>

relayPlayCard(socket, game, player) ==
    /\ relayed' = Relay("cardPlayed", game, socket, player,
                        BroadcastTo(socket, game, subscribed))
    /\ UNCHANGED <<storage, res, calls, page, subscribed>>

relayEndGame(socket, game) ==
    /\ relayed' = Relay("gameEnded", game, socket, Null,
                        BroadcastTo(socket, game, subscribed))
    /\ UNCHANGED <<storage, res, calls, page, subscribed>>

\* disconnect: the handler logs; the socket is out of every room.
relayDisconnect(socket) ==
    /\ subscribed' = [subscribed EXCEPT ![socket] = {}]
    /\ UNCHANGED <<storage, res, calls, page, relayed>>

\* ----------------------------------------------------------------- page
\* Room.vue, one page for each user; the user's token is valid.
\* if (v): an object, a Promise included, is truthy.
Truthy(v) ==
    CASE v.type = "boolean" -> v.val
      [] v.type = "object" -> TRUE
      [] OTHER -> FALSE

\* isPlayerHost() as onUnmounted calls it, without await: the Promise of an
\* async function.
isPlayerHost(user) == [type |-> "object", val |-> "Promise"]

\* GET /room/:code/players, /player/in_room, /player/is_host
getPlayers(code) == [i \in 1..Len(players[code]) |-> players[code][i].user_id]
isUserInRoom(user, code) == user \in MemberIds(code)
getPlayerIsHost(user, code) ==
    \E i \in 1..Len(players[code]) :
        players[code][i].user_id = user /\ players[code][i].host

\* onMounted: a user who is not in the room is sent back to "/"; otherwise
\* the page fetches the players and emits joinRoom with the first one's name.
onMounted(user, code) ==
    /\ page[user].pc = "none"
    /\ IF ~isUserInRoom(user, code)
       THEN /\ page' = [page EXCEPT ![user] =
                          [NoPage EXCEPT !.pc = "mounted", !.code = code]]
            /\ UNCHANGED <<subscribed, relayed>>
       ELSE LET fetched == getPlayers(code) IN
            /\ page' = [page EXCEPT ![user] =
                          [NoPage EXCEPT !.pc = "mounted", !.code = code,
                                         !.players = fetched,
                                         !.isHost = getPlayerIsHost(user, code),
                                         !.listening = TRUE]]
            /\ onJoinRoom(user, code, fetched[1])
    /\ UNCHANGED <<storage, res, calls>>

\* socket.on("playerJoined") and socket.on("playerLeft"): fetch the players.
playerJoined(user) ==
    /\ page[user].listening
    /\ relayed.event = "playerJoined" /\ user \in relayed.to
    /\ page' = [page EXCEPT ![user].players = getPlayers(page[user].code)]
    /\ relayed' = [relayed EXCEPT !.to = @ \ {user}]
    /\ UNCHANGED <<storage, res, calls, subscribed>>

playerLeft(user) ==
    /\ page[user].listening
    /\ relayed.event = "playerLeft" /\ user \in relayed.to
    /\ page' = [page EXCEPT ![user].players = getPlayers(page[user].code)]
    /\ relayed' = [relayed EXCEPT !.to = @ \ {user}]
    /\ UNCHANGED <<storage, res, calls, subscribed>>

\* socket.on("gameStarted"): the countdown starts.
gameStarted(user) ==
    /\ page[user].listening
    /\ relayed.event = "gameStarted" /\ user \in relayed.to
    /\ page' = [page EXCEPT ![user].countdown = TRUE]
    /\ relayed' = [relayed EXCEPT !.to = @ \ {user}]
    /\ UNCHANGED <<storage, res, calls, subscribed>>

\* The interval's last tick: isGameStarted, and the router leaves for the
\* game (the page is then unmounted).
countdownEnds(user) ==
    /\ page[user].countdown
    /\ page' = [page EXCEPT ![user].countdown = FALSE,
                            ![user].isGameStarted = TRUE]
    /\ UNCHANGED <<storage, res, calls, subscribed, relayed>>

\* A click on START GAME sends the start request: canStart is still true
\* and the list the page holds has 2 or 4 players.
ClickSendsStart(user) ==
    page[user].canStart /\ Len(page[user].players) \in {2, 4}

\* A click on START GAME, which the host sees: handleClickStart and, the
\* first time, startGame: nothing with a list of neither 2 nor 4 players,
\* else the start request, the countdown and the startGame emit.
handleClickStart(user) ==
    LET pg == page[user] IN
    /\ pg.pc = "mounted" /\ pg.isHost
    /\ IF ~pg.canStart
       THEN UNCHANGED <<storage, res, page, subscribed, relayed>>
       ELSE IF Len(pg.players) \notin {2, 4}
       THEN /\ page' = [page EXCEPT ![user].canStart = FALSE]
            /\ UNCHANGED <<storage, res, subscribed, relayed>>
       ELSE /\ startGame(user, pg.code)
            /\ page' = [page EXCEPT ![user].canStart = FALSE,
                                    ![user].countdown = TRUE]
            /\ onStartGame(user, pg.code)
    /\ UNCHANGED calls

\* The click on START GAME statement by statement.  First handleClickStart
\* and startGame up to its await: the length test, then the start request,
\* which the server handles; the token the page read at setup may have
\* expired by then.  The response is on its way to the page.
clickStartGame(user, token) ==
    LET pg == page[user] IN
    /\ pg.pc = "mounted" /\ pg.isHost
    /\ calls[user].pc = "idle"
    /\ IF ~pg.canStart
       THEN UNCHANGED <<storage, res, page, calls>>
       ELSE IF Len(pg.players) \notin {2, 4}
       THEN /\ page' = [page EXCEPT ![user].canStart = FALSE]
            /\ UNCHANGED <<storage, res, calls>>
       ELSE /\ startGame(token, pg.code)
            /\ page' = [page EXCEPT ![user].canStart = FALSE]
            /\ calls' = [calls EXCEPT ![user] =
                            [NoCall EXCEPT !.pc = "response",
                                           !.code = pg.code,
                                           !.status = res'.status]]
    /\ UNCHANGED <<subscribed, relayed>>

\* A plausible slip: the emit moved after the try and catch, where it runs
\* whatever the request's answer was.
startGameAnsweredEmitsAnyway(user) ==
    LET code == calls[user].code IN
    /\ calls[user].pc = "response"
    /\ calls' = [calls EXCEPT ![user] = NoCall]
    /\ page' = [page EXCEPT ![user].countdown =
                  IF calls[user].status = 200 THEN TRUE ELSE @]
    /\ onStartGame(user, code)
    /\ UNCHANGED <<storage, res>>

\* startGame after its await: axios rejects on a status that is not 2xx and
\* the catch logs it; else the countdown starts and the page emits startGame,
\* which the relay broadcasts.
startGameAnswered(user) ==
    LET code == calls[user].code IN
    /\ calls[user].pc = "response"
    /\ calls' = [calls EXCEPT ![user] = NoCall]
    /\ IF calls[user].status = 200
       THEN /\ page' = [page EXCEPT ![user].countdown = TRUE]
            /\ onStartGame(user, code)
       ELSE UNCHANGED <<page, subscribed, relayed>>
    /\ UNCHANGED <<storage, res>>

\* onUnmounted up to the end of its await leaveRoom().
onUnmountedLeave(user) ==
    LET pg == page[user] IN
    /\ pg.pc = "mounted"
    /\ page' = [page EXCEPT ![user].pc = "left"]
    /\ IF ~pg.isGameStarted THEN leaveRoom(user, pg.code)
       ELSE UNCHANGED <<storage, res>>
    /\ UNCHANGED <<calls, subscribed, relayed>>

\* The rest of onUnmounted: deleteRoom when the fetched list is empty, then
\* the emit, hostLeft or leaveRoom (players.value[0] of an empty list is
\* undefined: reading its name throws and nothing is emitted).
onUnmountedFinish(user) ==
    LET pg == page[user] IN
    /\ pg.pc = "left"
    /\ IF Len(pg.players) = 0 /\ ~pg.isGameStarted
       THEN deleteRoom(user, pg.code)
       ELSE UNCHANGED <<storage, res>>
    /\ IF Truthy(isPlayerHost(user)) /\ ~pg.isGameStarted
       THEN onUnhandled(user)
       ELSE IF Len(pg.players) = 0 THEN onUnhandled(user)
       ELSE onLeaveRoom(user, pg.code, pg.players[1])
    /\ page' = [page EXCEPT ![user] = NoPage]
    /\ UNCHANGED calls

\* ------------------------------------------------------ specification
RECURSIVE SumOver(_, _)
SumOver(f, S) == IF S = {} THEN 0
                 ELSE LET x == CHOOSE y \in S : TRUE
                      IN f[x] + SumOver(f, S \ {x})

DeckRows(code) == BagSize(deck[code])
HandRows(code) == SumOver([u \in Users |-> BagSize(hand_cards[code][u])], Users)
TableRows(code) == SumOver([u \in Users |-> BagSize(table_cards[code][u])], Users)

\* Room, membership and turn requests of authenticated users on one room.
Next ==
    \/ \E token \in Users, code \in OneRoom : Http(createRoom(token, code))
    \/ \E token \in Users, code \in OneRoom : Http(deleteRoom(token, code))
    \/ \E token \in Users, code \in OneRoom :
          Len(players[code]) < MaxPlayers /\ Http(joinRoom(token, code))
    \/ \E token \in Users, code \in OneRoom : Http(leaveRoom(token, code))
    \/ \E token \in Users, code \in OneRoom : Http(giveUp(token, code))
    \/ \E token \in Users, code \in OneRoom :
          /\ \A card \in generateDeck : deck[code][card] < MaxCopies
          /\ Http(startGame(token, code))
    \/ \E id \in OneRoom : Http(endGame(id))
    \/ \E token \in Users, code \in OneRoom : Http(passTurn(token, code))

Spec == Init /\ [][Next]_vars

\* Membership changes and turn passes alone.
NextTurn ==
    \/ \E token \in Users, code \in OneRoom : Http(createRoom(token, code))
    \/ \E token \in Users, code \in OneRoom :
          Len(players[code]) < MaxPlayers /\ Http(joinRoom(token, code))
    \/ \E token \in Users, code \in OneRoom : Http(leaveRoom(token, code))
    \/ \E token \in Users, code \in OneRoom : Http(passTurn(token, code))

SpecTurn == Init /\ [][NextTurn]_vars

\* Rooms that are created and joined, and never left or deleted.
NextJoin ==
    \/ \E token \in Users, code \in Codes : Http(createRoom(token, code))
    \/ \E token \in Users, code \in Codes :
          Len(players[code]) < MaxPlayers /\ Http(joinRoom(token, code))

SpecJoin == Init /\ [][NextJoin]_vars

\* The card requests of CardUsers users on one room; a new deck is dealt
\* once the room's deck and hands have no row left.
NextCards ==
    \/ \E token \in 1..CardUsers, code \in OneRoom : Http(createRoom(token, code))
    \/ \E token \in 1..CardUsers, code \in OneRoom :
          DeckRows(code) + HandRows(code) = 0 /\ Http(startGame(token, code))
    \/ \E token \in 1..CardUsers, code \in OneRoom : Http(drawCard(token, code))
    \/ \E token \in 1..CardUsers, code \in OneRoom, card \in generateDeck :
          TableRows(code) < MaxTable /\ Http(playCard(token, code, card[1], card[2]))
    \/ \E id \in OneRoom : Http(endGame(id))

SpecCards == Init /\ [][NextCards]_vars

\* drawCard requests whose statements interleave, one request for each user,
\* on a room whose deck is dealt once and while no request is in flight.
NextDraw ==
    \/ \E token \in Users, code \in OneRoom : Http(createRoom(token, code))
    \/ \E token \in Users, code \in OneRoom :
          /\ DeckRows(code) + HandRows(code) = 0
          /\ \A u \in Users : calls[u].pc = "idle"
          /\ Http(startGame(token, code))
    \/ \E token \in Users, code \in OneRoom : drawCardSelect(token, code)
    \/ \E token \in Users : drawCardInsert(token)
    \/ \E token \in Users : drawCardDelete(token)

SpecDraw == Init /\ [][NextDraw]_vars

\* passTurn requests whose statements interleave, one request for each user,
\* on a room that fills before the first of them starts.
NextPass ==
    \/ \E token \in Users, code \in OneRoom : Http(createRoom(token, code))
    \/ \E token \in Users, code \in OneRoom :
          /\ Len(players[code]) < MaxPlayers
          /\ \A u \in Users : calls[u].pc = "idle"
          /\ Http(joinRoom(token, code))
    \/ \E token \in Users, code \in OneRoom : passTurnSelectPlayers(token, code)
    \/ \E token \in Users : passTurnSelectTurn(token)
    \/ \E token \in Users : passTurnUpdate(token)

SpecPass == Init /\ [][NextPass]_vars

\* A game of CardUsers users on one room: the room fills, the game starts
\* once, and up to MaxHand cards are drawn and a card is played from then on,
\* while members pass the turn, give up or leave, and the game is ended.
NextGame ==
    \/ \E token \in 1..CardUsers, code \in OneRoom : Http(createRoom(token, code))
    \/ \E token \in 1..CardUsers, code \in OneRoom :
          /\ rooms[code].status = "waiting"
          /\ Len(players[code]) < CardUsers
          /\ Http(joinRoom(token, code))
    \/ \E token \in 1..CardUsers, code \in OneRoom :
          /\ rooms[code].status = "waiting"
          /\ DeckRows(code) + HandRows(code) = 0
          /\ Http(startGame(token, code))
    \/ \E token \in 1..CardUsers, code \in OneRoom :
          /\ DeckSize - DeckRows(code) < MaxHand
          /\ Http(drawCard(token, code))
    \/ \E token \in 1..CardUsers, code \in OneRoom, card \in generateDeck :
          /\ rooms[code].status \in {"in_progress", "ended"}
          /\ TableRows(code) < MaxTable
          /\ Http(playCard(token, code, card[1], card[2]))
    \/ \E token \in 1..CardUsers, code \in OneRoom : Http(passTurn(token, code))
    \/ \E token \in 1..CardUsers, code \in OneRoom : Http(giveUp(token, code))
    \/ \E token \in 1..CardUsers, code \in OneRoom : Http(leaveRoom(token, code))
    \/ \E id \in OneRoom : Http(endGame(id))

SpecGame == Init /\ [][NextGame]_vars

\* One room that users keep joining, up to MaxRows player rows, before and
\* after its game starts.
NextFill ==
    \/ \E token \in Users, code \in OneRoom : Http(createRoom(token, code))
    \/ \E token \in Users, code \in OneRoom :
          Len(players[code]) < MaxRows /\ Http(joinRoom(token, code))
    \/ \E token \in Users, code \in OneRoom :
          DeckRows(code) = 0 /\ Http(startGame(token, code))

SpecFill == Init /\ [][NextFill]_vars

\* Two rooms at once: users create them, start their games, draw up to
\* MaxHand cards from each deck, and end the games.
NextRooms ==
    \/ \E token \in 1..CardUsers, code \in Codes : Http(createRoom(token, code))
    \/ \E token \in 1..CardUsers, code \in Codes :
          /\ rooms[code].status = "waiting"
          /\ DeckRows(code) + HandRows(code) = 0
          /\ Http(startGame(token, code))
    \/ \E token \in 1..CardUsers, code \in Codes :
          /\ DeckSize - DeckRows(code) < MaxHand
          /\ Http(drawCard(token, code))
    \/ \E id \in Codes : Http(endGame(id))

SpecRooms == Init /\ [][NextRooms]_vars

\* createRoom requests whose statements interleave with each other and with
\* joinRoom requests.
NextCreate ==
    \/ \E token \in Users, code \in OneRoom : createRoomCheck(token, code)
    \/ \E token \in Users : createRoomInsertRoom(token)
    \/ \E token \in Users : createRoomInsertPlayer(token)
    \/ \E token \in Users, code \in OneRoom :
          Len(players[code]) < MaxPlayers /\ Http(joinRoom(token, code))

SpecCreate == Init /\ [][NextCreate]_vars

\* The relay alone: any socket emits any event for any room.
NextRelay ==
    \/ \E socket \in Users, room \in Codes, player \in Names :
          relayJoinRoom(socket, room, player)
    \/ \E socket \in Users, room \in Codes, player \in Names :
          relayLeaveRoom(socket, room, player)
    \/ \E socket \in Users, room \in Codes : relayStartGame(socket, room)
    \/ \E socket \in Users, game \in Codes, player \in Names :
          relayJoinGame(socket, game, player)
    \/ \E socket \in Users, game \in Codes, player \in Names :
          relayPassTurn(socket, game, player)
    \/ \E socket \in Users, game \in Codes, player \in Names :
          relayPlayCard(socket, game, player)
    \/ \E socket \in Users, game \in Codes : relayEndGame(socket, game)
    \/ \E socket \in Users : relayDisconnect(socket)

SpecRelay == Init /\ [][NextRelay]_vars

\* Users who create or join a room and open and close its page.
NextPage ==
    \/ \E token \in 1..PageUsers, code \in OneRoom :
          Http(createRoom(token, code))
    \/ \E token \in 1..PageUsers, code \in OneRoom :
          Len(players[code]) < PageUsers /\ Http(joinRoom(token, code))
    \/ \E user \in 1..PageUsers, code \in OneRoom : onMounted(user, code)
    \/ \E user \in 1..PageUsers : playerJoined(user)
    \/ \E user \in 1..PageUsers : playerLeft(user)
    \/ \E user \in 1..PageUsers :
          /\ page[user].pc = "mounted"
          /\ DeckRows(page[user].code) = 0
          /\ handleClickStart(user)
    \/ \E user \in 1..PageUsers : gameStarted(user)
    \/ \E user \in 1..PageUsers : countdownEnds(user)
    \/ \E user \in 1..PageUsers : onUnmountedLeave(user)
    \/ \E user \in 1..PageUsers : onUnmountedFinish(user)

SpecPage == Init /\ [][NextPage]_vars

\* Pages that stay open: users create or join a room and open its page, and
\* the host clicks START GAME with a token that is valid or has expired.
NextStart ==
    \/ \E token \in 1..PageUsers, code \in OneRoom :
          Http(createRoom(token, code))
    \/ \E token \in 1..PageUsers, code \in OneRoom :
          Len(players[code]) < PageUsers /\ Http(joinRoom(token, code))
    \/ \E user \in 1..PageUsers, code \in OneRoom : onMounted(user, code)
    \/ \E user \in 1..PageUsers : playerJoined(user)
    \/ \E user \in 1..PageUsers :
          \E token \in {user, BadToken} : clickStartGame(user, token)
    \/ \E user \in 1..PageUsers : startGameAnswered(user)
    \/ \E user \in 1..PageUsers : gameStarted(user)
    \/ \E user \in 1..PageUsers : countdownEnds(user)

SpecStart == Init /\ [][NextStart]_vars

\* Rooms that their creator leaves, and deleteRoom on a room without
\* members, once or again.
NextDelete ==
    \/ \E token \in Users, code \in Codes : Http(createRoom(token, code))
    \/ \E token \in Users, code \in Codes : Http(leaveRoom(token, code))
    \/ \E token \in Users, code \in Codes :
          /\ \/ RoomExists(code) /\ Len(players[code]) = 0
             \/ res.op = "deleteRoom" /\ res.code = code
          /\ Http(deleteRoom(token, code))

SpecDelete == Init /\ [][NextDelete]_vars

\* Every handler, called by one user with a valid token and by callers
\* without a token or with one that does not verify.
Callers == {1, NoToken, BadToken}

NextAuth ==
    \/ \E token \in Callers, code \in OneRoom : Http(createRoom(token, code))
    \/ \E token \in Callers, code \in OneRoom : Http(deleteRoom(token, code))
    \/ \E token \in Callers, code \in OneRoom :
          Len(players[code]) < MaxPlayers /\ Http(joinRoom(token, code))
    \/ \E token \in Callers, code \in OneRoom : Http(leaveRoom(token, code))
    \/ \E token \in Callers, code \in OneRoom :
          DeckRows(code) + HandRows(code) = 0 /\ Http(startGame(token, code))
    \/ \E id \in OneRoom : Http(endGame(id))
    \/ \E token \in Callers, code \in OneRoom, card \in generateDeck :
          /\ TableRows(code) < MaxTable
          /\ Http(playCard(token, code, card[1], card[2]))
    \/ \E token \in Callers, code \in OneRoom : Http(passTurn(token, code))
    \/ \E token \in Callers, code \in OneRoom : Http(drawCard(token, code))
    \/ \E token \in Callers, code \in OneRoom : Http(giveUp(token, code))

SpecAuth == Init /\ [][NextAuth]_vars

\* ------------------------------------------------------------- claims
Distinct(rows) ==
    \A i, j \in 1..Len(rows) : rows[i].user_id = rows[j].user_id => i = j

\* C1: a successful passTurn on a room whose members are pairwise distinct
\* and whose turn holder is the member at position i of the storage order
\* sets turn_player_id to the member at the next position, the first one
\* after the last (A -> B -> C -> A), and changes no member.
C1_PassTurnCyclic ==
    [][\A token \in Users, code \in OneRoom :
          LET rows == players[code]
              n == Len(rows)
          IN (/\ passTurn(token, code)
              /\ res'.status = 200
              /\ Distinct(rows))
             => \A i \in 1..n :
                   rows[i].user_id = rooms[code].turn_player_id
                   => /\ rooms'[code].turn_player_id
                           = rows[IF i = n THEN 1 ELSE i + 1].user_id
                      /\ players' = players]_vars

\* C1 witness: three distinct members, and the last pass went from the
\* third of them back to the first.
C1_Witness ==
    \E code \in OneRoom :
        LET rows == players[code] IN
        /\ res.op = "passTurn" /\ res.status = 200 /\ res.code = code
        /\ Len(rows) = 3 /\ Distinct(rows)
        /\ res.detail = rows[3].user_id
        /\ rooms[code].turn_player_id = rows[1].user_id

\* The places of a room that hold a row of the card: the deck, each hand,
\* the table.
Places(code, card) ==
    (IF deck[code][card] > 0 THEN 1 ELSE 0)
    + SumOver([u \in Users |->
                 IF hand_cards[code][u][card] > 0 THEN 1 ELSE 0], Users)
    + (IF \E u \in Users : table_cards[code][u][card] > 0 THEN 1 ELSE 0)

\* C2: in every reachable state a card (number, seed) of a room is in at
\* most one of the room's deck, one player's hand of the room, the room's
\* table.
C2_CardInOnePlace ==
    \A code \in Codes, card \in generateDeck : Places(code, card) <= 1

\* C3: once startGame has run on a room its deck holds DeckSize rows with
\* pairwise distinct (number, seed), less one row for each successful draw
\* (no request of Spec draws, so the deck of a started room stays whole).
C3_DeckDealtOnce ==
    \A code \in Codes :
        DeckRows(code) > 0
        => /\ DeckRows(code) = DeckSize
           /\ \A card \in generateDeck : deck[code][card] <= 1

\* C4: a successful playCard of a card the caller holds in the room puts a
\* row of the card for the caller on the room's table, leaves no row of
\* the card in the caller's hand of the room, and changes neither another
\* row of a hand nor the deck.
C4_PlayMovesCard ==
    [][\A token \in 1..CardUsers, code \in OneRoom, card \in generateDeck :
          (/\ hand_cards[code][token][card] > 0
           /\ playCard(token, code, card[1], card[2]))
          => /\ res'.status = 200
             /\ table_cards'[code][token][card] = table_cards[code][token][card] + 1
             /\ hand_cards'[code][token][card] = 0
             /\ \A c \in Codes, u \in Users, k \in generateDeck :
                   <<c, u, k>> # <<code, token, card>>
                   => hand_cards'[c][u][k] = hand_cards[c][u][k]
             /\ deck' = deck]_vars

\* C4 witness: the last request played a card that was in the caller's
\* hand; the card is on the table and no longer in that hand.
C4_Witness ==
    /\ res.op = "playCard" /\ res.status = 200 /\ res.detail > 0
    /\ table_cards[res.code][res.user][res.card] > 0
    /\ hand_cards[res.code][res.user][res.card] = 0

\* C5: drawCard on a room whose deck has no row answers 404 and changes no
\* row of the deck, the hands or the table.
C5_DrawOnEmptyDeck ==
    [][\A token \in 1..CardUsers, code \in OneRoom :
          (DeckRows(code) = 0 /\ drawCard(token, code))
          => /\ res'.status = 404
             /\ UNCHANGED <<deck, hand_cards, table_cards>>]_vars

\* C5 witness: a draw answered 404 in a started room whose deck had been
\* drawn empty.
C5_Witness ==
    /\ res.op = "drawCard" /\ res.status = 404
    /\ rooms[res.code].status = "in_progress"
    /\ DeckRows(res.code) = 0
    /\ HandRows(res.code) > 0

C7_StartNeedsTwoOrFour ==
    [][\A code \in OneRoom :
          /\ (rooms[code].status # "in_progress"
               /\ rooms'[code].status = "in_progress")
             => Len(players[code]) \in {2, 4}
          /\ \A token \in Users :
                (startGame(token, code) /\ Len(players[code]) \notin {2, 4})
                => UNCHANGED <<rooms, players, deck>>]_vars

\* C8: while a room is in_progress its turn_player_id is the user_id of a
\* player row of the room.
C8_TurnHolderIsMember ==
    \A code \in Codes :
        rooms[code].status = "in_progress"
        => rooms[code].turn_player_id \in MemberIds(code)

\* C9: every existing room has exactly one player row with host = true.
C9_OneHostPerRoom ==
    \A code \in Codes :
        RoomExists(code)
        => Cardinality({i \in 1..Len(players[code]) : players[code][i].host}) = 1

StatusRank(status) ==
    CASE status = "waiting" -> 1
      [] status = "in_progress" -> 2
      [] status = "ended" -> 3

\* C10: the status of a room only moves forward along waiting, in_progress,
\* ended; startGame alone takes it from waiting to in_progress and endGame
\* alone takes it to ended.
C10_StatusMovesForward ==
    [][\A code \in Codes :
          (RoomExists(code) /\ rooms'[code] # NoRoom
           /\ rooms'[code].status # rooms[code].status)
          => /\ StatusRank(rooms'[code].status) > StatusRank(rooms[code].status)
             /\ rooms'[code].status = "in_progress" => res'.op = "startGame"
             /\ rooms'[code].status = "ended" => res'.op = "endGame"]_vars

\* C11: a createRoom that answers 200 to user u inserted its room under a
\* code no room had, and when it answers there is a room of that code whose
\* turn_player_id is u and whose only player row is u's, with host = true;
\* no INSERT of a room replaces a room that exists, however the statements
\* of two createRoom requests interleave.
C11_CreateRoomFresh ==
    [][\A token \in Users :
          LET code == calls[token].code IN
          /\ createRoomInsertRoom(token)
             => (IF RoomExists(code) THEN rooms' = rooms
                 ELSE rooms'[code].turn_player_id = token)
          /\ (createRoomInsertPlayer(token) /\ res'.status = 200)
             => /\ res'.code = code
                /\ RoomExists(code)
                /\ rooms'[code].turn_player_id = token
                /\ players'[code] = <<Player(token, Null, TRUE)>>]_vars

\* C12: a drawCard or playCard request of a user who is not the
\* turn_player_id of the (existing) room changes no row of the deck, the
\* hands or the table.
C12_OnlyHolderActsOnCards ==
    [][\A token \in 1..CardUsers, code \in OneRoom, card \in generateDeck :
          (RoomExists(code) /\ rooms[code].turn_player_id # token)
          => /\ drawCard(token, code) => UNCHANGED cards
             /\ playCard(token, code, card[1], card[2]) => UNCHANGED cards]_vars

\* C13: when the unmount handler of a Room page has finished, its room is
\* not a waiting room with zero player rows: the last member's leave took
\* the room row with it.
C13_EmptyRoomDeleted ==
    [][\A user \in 1..PageUsers :
          onUnmountedFinish(user)
          => LET code == page[user].code IN
             ~(rooms'[code].status = "waiting" /\ Len(players'[code]) = 0)]_vars

C15_DeleteRoomIdempotent ==
    [][\A token \in Users, code \in Codes :
          (/\ res.op = "deleteRoom" /\ res.status = 200 /\ res.code = code
           /\ players[code] = <<>>
           /\ deleteRoom(token, code))
          => UNCHANGED storage]_vars

\* C15 witness: deleteRoom has answered a second time for a code whose
\* room, without members, the first had deleted.
C15_Witness ==
    /\ res.op = "deleteRoom" /\ res.status = 200 /\ res.detail = 0
    /\ ~RoomExists(res.code)
    /\ players[res.code] = <<>>

\* C16: deleteRoom of a code that no room has answers 404 or 500, never
\* with a success.
C16_DeleteMissingRoomFails ==
    [][\A token \in Users, code \in OneRoom :
          (~RoomExists(code) /\ deleteRoom(token, code))
          => res'.status \in {404, 500}]_vars

\* C17: an event that socket s emits for room r (joinRoom, leaveRoom,
\* startGame, passTurn, playCard, endGame) goes out as the corresponding
\* event (playerJoined, playerLeft, gameStarted, turnPassed, cardPlayed,
\* gameEnded) with the payload it came with, to exactly the sockets other
\* than s that are subscribed to r: to each of them, to no socket outside r
\* and not back to s.
C17_RelayToOthersInRoom ==
    [][\A s \in Users, r \in Codes, p \in Names :
          LET others == {t \in Users \ {s} : r \in subscribed[t]} IN
          /\ relayJoinRoom(s, r, p)
             => relayed' = Relay("playerJoined", r, s, p, others)
          /\ relayLeaveRoom(s, r, p)
             => relayed' = Relay("playerLeft", r, s, p, others)
          /\ relayStartGame(s, r)
             => relayed' = Relay("gameStarted", r, s, Null, others)
          /\ relayPassTurn(s, r, p)
             => relayed' = Relay("turnPassed", r, s, p, others)
          /\ relayPlayCard(s, r, p)
             => relayed' = Relay("cardPlayed", r, s, p, others)
          /\ relayEndGame(s, r)
             => relayed' = Relay("gameEnded", r, s, Null, others)]_vars

\* C17 witness: a broadcast from a socket that is in the room, which went
\* to another socket of the room while a third socket is outside it.
C17_Witness ==
    /\ relayed.event = "playerJoined"
    /\ relayed.room \in subscribed[relayed.from]
    /\ relayed.to # {}
    /\ \E t \in Users \ {relayed.from} :
          relayed.room \notin subscribed[t] /\ t \notin relayed.to

\* C18: each of the ten handlers, called without a token or with a token
\* that does not verify, answers 401 or 403 and changes no row of rooms,
\* players, deck, hands or table.  endGame reads no token: each of its
\* requests is also one made without a credential.
C18_CredentialRequired ==
    [][\A token \in {NoToken, BadToken}, code \in OneRoom, card \in generateDeck :
          LET Refused == res'.status \in {401, 403} /\ UNCHANGED storage IN
          /\ createRoom(token, code) => Refused
          /\ deleteRoom(token, code) => Refused
          /\ joinRoom(token, code) => Refused
          /\ leaveRoom(token, code) => Refused
          /\ startGame(token, code) => Refused
          /\ endGame(code) => Refused
          /\ playCard(token, code, card[1], card[2]) => Refused
          /\ passTurn(token, code) => Refused
          /\ drawCard(token, code) => Refused
          /\ giveUp(token, code) => Refused]_vars

C20_GuardNeverFires ==
    /\ [](res.op = "passTurn" => res.status # 403)
    /\ [][\A token \in Users, code \in OneRoom :
             LET rows == players[code]
                 n == Len(rows)
                 mine == {i \in 1..n : rows[i].user_id = rooms[code].turn_player_id}
                 first == CHOOSE i \in mine : \A j \in mine : i <= j
             IN (passTurn(token, code) /\ n > 0 /\ RoomExists(code))
                => /\ res'.status = 200
                   /\ rooms'[code].turn_player_id =
                         IF mine = {} THEN rows[1].user_id
                         ELSE rows[(first % n) + 1].user_id]_vars

\* C20 witness: a pass answered 200 for a caller who neither held the turn
\* nor had a player row in the room, and the turn went to another user.
C20_Witness ==
    /\ res.op = "passTurn" /\ res.status = 200
    /\ res.user \notin MemberIds(res.code)
    /\ res.user # res.detail
    /\ rooms[res.code].turn_player_id # res.detail

\* C21: a successful passTurn on a room whose turn_player_id is the user_id
\* of none of its player rows sets turn_player_id to the user_id of the
\* first row in storage order.
C21_LostHolderToFirst ==
    [][\A token \in Users, code \in OneRoom :
          (/\ passTurn(token, code)
           /\ res'.status = 200
           /\ rooms[code].turn_player_id \notin MemberIds(code))
          => rooms'[code].turn_player_id = players[code][1].user_id]_vars

\* C21 witness: the last pass found a holder who has no row in the room of
\* two or more rows, and the turn is now with the first row's user.
C21_Witness ==
    \E code \in OneRoom :
        /\ res.op = "passTurn" /\ res.status = 200 /\ res.code = code
        /\ res.detail \notin MemberIds(code)
        /\ Len(players[code]) >= 2
        /\ rooms[code].turn_player_id = players[code][1].user_id

\* C22: passTurn on a code with zero player rows answers 404 and changes
\* the turn_player_id of no room.
C22_PassTurnNoPlayers ==
    [][\A token \in Users, code \in OneRoom :
          (passTurn(token, code) /\ Len(players[code]) = 0)
          => /\ res'.status = 404
             /\ rooms' = rooms]_vars

\* C22 witness: a pass answered 404 on a room that exists and that its
\* members have left.
C22_Witness ==
    /\ res.op = "passTurn" /\ res.status = 404
    /\ RoomExists(res.code)
    /\ Len(players[res.code]) = 0

\* C23: playCard of a card the caller's hand in the room does not hold
\* answers 200, adds one table row (room, caller, number, seed) and leaves
\* every hand as it is.
C23_PhantomTableCard ==
    [][\A token \in 1..CardUsers, code \in OneRoom,
          number \in Numbers, seed \in Seeds :
          (/\ playCard(token, code, number, seed)
           /\ hand_cards[code][token][<<number, seed>>] = 0)
          => /\ res'.status = 200
             /\ table_cards' = [table_cards EXCEPT
                                  ![code][token][<<number, seed>>] = @ + 1]
             /\ hand_cards' = hand_cards]_vars

\* C23 witness: the last playCard matched no hand row and its card is on the
\* table, in a room whose game never started and whose deck was never dealt,
\* so that no hand ever held the card.
C23_Witness ==
    /\ res.op = "playCard" /\ res.status = 200 /\ res.detail = 0
    /\ rooms[res.code].status = "waiting"
    /\ DeckRows(res.code) = 0 /\ HandRows(res.code) = 0
    /\ table_cards[res.code][res.user][res.card] > 0

\* C24: a drawCard request inserts the row it selected into the caller's
\* hand without reading the deck again, and its delete of that row succeeds
\* also when another request has deleted the row; so two requests that
\* selected the same row both put its card in a hand and the deck loses it
\* once.
C24_DrawsShareARow ==
    [][\A token \in Users :
          /\ drawCardInsert(token)
             => /\ hand_cards'[calls[token].code][token][calls[token].card]
                      = hand_cards[calls[token].code][token][calls[token].card] + 1
                /\ deck' = deck
          /\ drawCardDelete(token)
             => /\ res'.status = 200 /\ res'.card = calls[token].card
                /\ hand_cards' = hand_cards
                /\ DeckRows(calls[token].code)' >=
                      DeckRows(calls[token].code) - 1]_vars

\* C24 witness: two requests have answered 200 with the same card, the card
\* is in both callers' hands, and the room's deck is one row short.
C24_Witness ==
    \E u, v \in Users, code \in OneRoom, card \in generateDeck :
        /\ u # v
        /\ calls[u].pc = "answered" /\ calls[u].status = 200
        /\ calls[v].pc = "answered" /\ calls[v].status = 200
        /\ calls[u].card = card /\ calls[v].card = card
        /\ hand_cards[code][u][card] = 1 /\ hand_cards[code][v][card] = 1
        /\ HandRows(code) = 2
        /\ DeckRows(code) = DeckSize - 1

\* C25: the UPDATE of a passTurn request writes the successor of the holder
\* the request read and answers 200, whatever turn_player_id is at that
\* moment; so two requests that read the same holder write the same
\* successor and the turn moves one position for two successful passes.
C25_PassesLoseAnUpdate ==
    [][\A token \in Users :
          (passTurnUpdate(token) /\ RoomExists(calls[token].code))
          => /\ res'.status = 200
             /\ rooms'[calls[token].code].turn_player_id
                   = NextPlayer(calls[token].rows, calls[token].turn)]_vars

\* C25 witness: in a room of three distinct members whose first holds the
\* turn at the start, two requests, the only ones sent, have answered 200
\* after reading the first member as holder, and the turn is with the second
\* member, not the third.
C25_Witness ==
    \E u, v, w \in Users, code \in OneRoom :
        /\ u # v /\ v # w /\ u # w
        /\ Len(players[code]) = 3
        /\ Distinct(players[code])
        /\ calls[u].pc = "answered" /\ calls[u].status = 200
        /\ calls[v].pc = "answered" /\ calls[v].status = 200
        /\ calls[w].pc = "idle"
        /\ calls[u].turn = players[code][1].user_id
        /\ calls[v].turn = players[code][1].user_id
        /\ rooms[code].turn_player_id = players[code][2].user_id

\* C26: giveUp and leaveRoom remove the caller's player rows of the room and
\* nothing else: the other rows keep their order and fields, and the rooms
\* (status and turn_player_id), the deck, the table and every hand are
\* unchanged, whoever holds the turn.
C26_LeaveRemovesOnlyTheRow ==
    [][\A token \in 1..CardUsers, code \in OneRoom :
          (giveUp(token, code) \/ leaveRoom(token, code))
          => LET Others(row) == row.user_id # token IN
             /\ res'.status = 200
             /\ players' = [players EXCEPT
                              ![code] = SelectSeq(players[code], Others)]
             /\ rooms' = rooms
             /\ deck' = deck
             /\ table_cards' = table_cards
             /\ hand_cards' = hand_cards]_vars

\* C26 witness: the last request was a giveUp of the turn holder of a game
\* in progress; the caller has no player row, another member has one, and
\* the caller's hand still holds a card.
C26_Witness ==
    /\ res.op = "giveUp" /\ res.status = 200
    /\ rooms[res.code].status = "in_progress"
    /\ rooms[res.code].turn_player_id = res.user
    /\ res.user \notin MemberIds(res.code)
    /\ Len(players[res.code]) > 0
    /\ BagSize(hand_cards[res.code][res.user]) > 0

\* C28: no request removes a table row: in every step each (room, player,
\* number, seed) has at least the table rows it had.
C28_TableRowsStay ==
    [][\A code \in OneRoom, u \in Users, card \in generateDeck :
          table_cards'[code][u][card] >= table_cards[code][u][card]]_vars

\* C28 witness: the game was ended and every member has gone, and the room's
\* table still holds the card that was played.
C28_Witness ==
    /\ res.op = "endGame"
    /\ rooms[res.code].status = "ended"
    /\ Len(players[res.code]) = 0
    /\ TableRows(res.code) = MaxTable

\* C30: in a game in progress the rows of the room's deck, of the hands of
\* the room and of the room's table are as many as the deck that was dealt.
C30_CardsConserved ==
    \A code \in OneRoom :
        rooms[code].status = "in_progress"
        => DeckRows(code) + HandRows(code) + TableRows(code) = DeckSize

\* C27: joinRoom on a room that exists answers 200 and appends a player row
\* of the caller, whatever the room's member count and status.
C27_JoinAnyRoom ==
    [][\A token \in Users, code \in OneRoom :
          (joinRoom(token, code) /\ RoomExists(code))
          => /\ res'.status = 200
             /\ Len(players'[code]) = Len(players[code]) + 1
             /\ SubSeq(players'[code], 1, Len(players[code])) = players[code]
             /\ players'[code][Len(players'[code])].user_id = token
             /\ rooms' = rooms]_vars

\* C27 witness: the last request was a joinRoom answered 200 that gave a
\* room in progress its fifth player row, the row of a user who was not in
\* the game when it started.
C27_Witness ==
    /\ res.op = "joinRoom" /\ res.status = 200
    /\ rooms[res.code].status = "in_progress"
    /\ Len(players[res.code]) > 4
    /\ players[res.code][1].in_game
    /\ players[res.code][Len(players[res.code])].user_id = res.user
    /\ ~players[res.code][Len(players[res.code])].in_game

\* C29: endGame on a room changes no hand of another room.
C29_EndGameOneRoom ==
    [][\A id \in Codes :
          endGame(id)
          => \A code \in Codes \ {id} : hand_cards'[code] = hand_cards[code]]_vars

\* C32: the unmount handler of the page of a member, a page that joined the
\* relay's room, whose game has not started and whose list of players is
\* not empty, ends with the relay's broadcast of playerLeft from that
\* member's socket to the room.
C32_UnmountTellsPeers ==
    [][\A user \in 1..PageUsers :
          (/\ onUnmountedFinish(user)
           /\ page[user].listening
           /\ ~page[user].isGameStarted
           /\ Len(page[user].players) > 0)
          => /\ relayed'.event = "playerLeft"
             /\ relayed'.from = user
             /\ relayed'.room = page[user].code]_vars

\* C33: a deleteRoom request of a caller who is not the host of the room
\* leaves the room's row in place.
C33_OnlyHostDeletes ==
    [][\A token \in Users, code \in OneRoom :
          (/\ deleteRoom(token, code)
           /\ RoomExists(code)
           /\ ~getPlayerIsHost(getUserIdFromToken(token), code))
          => rooms'[code] = rooms[code]]_vars

\* C34: on the page of the host of a waiting room, a page that has sent no
\* start request and lists 2 or 4 players, a click on START GAME sends the
\* start request, whatever was clicked before.
C34_ClickStillStarts ==
    \A user \in 1..PageUsers :
        (/\ page[user].pc = "mounted" /\ page[user].isHost
         /\ Len(page[user].players) \in {2, 4}
         /\ ~page[user].countdown /\ ~page[user].isGameStarted
         /\ rooms[page[user].code].status = "waiting")
        => ClickSendsStart(user)

\* C31: the relay broadcasts gameStarted from a page (a change of the
\* broadcast that is not a peer's reception of it) only in the step in
\* which that page got the answer 200 to its start request, an answer that
\* is not 200 is followed by no emission and no countdown, and while a
\* gameStarted broadcast is there to receive the room is in_progress.
C31_EmitAfterStart ==
    /\ [](relayed.event = "gameStarted"
             => rooms[relayed.room].status = "in_progress")
    /\ [][/\ \A user \in 1..PageUsers :
                (startGameAnswered(user) /\ calls[user].status # 200)
                => /\ relayed' = relayed
                   /\ page' = page
          /\ (/\ relayed' # relayed /\ relayed'.event = "gameStarted"
              /\ ~\E peer \in 1..PageUsers : gameStarted(peer))
                => \E user \in 1..PageUsers :
                      /\ startGameAnswered(user)
                      /\ calls[user].status = 200
                      /\ relayed'.from = user]_vars

\* C31 witness: a peer has received the host's gameStarted and its
\* countdown runs, in a room that the host's start request put in_progress.
C31_Witness ==
    \E host, peer \in 1..PageUsers :
        /\ host # peer
        /\ relayed.event = "gameStarted" /\ relayed.from = host
        /\ peer \notin relayed.to
        /\ page[peer].listening /\ page[peer].countdown
        /\ page[host].isHost /\ ~page[host].canStart
        /\ rooms[relayed.room].status = "in_progress"

====
